---- MODULE Spec2Model ----
(***************************************************************************)
(* AuditService (compliance audit log and data-retention engine).          *)
(* The two tables, auditLogs and dataRetentionPolicies, are the state; the *)
(* static methods of AuditService are the actions.  Every database call    *)
(* can succeed or throw; a thrown error follows the try/catch structure    *)
(* of the method that made the call.                                       *)
(*                                                                         *)
(* Time is counted in days since 1 January of EpochYear; a Date is a day   *)
(* number.  Optional values (undefined / null / NULL columns) are the      *)
(* empty sequence, a present value x is <<x>>.                             *)
(***************************************************************************)
EXTENDS Integers, Sequences, FiniteSets, TLC

VARIABLES auditLogs, policies, now, nextId, ticks, last, procs

vars == <<auditLogs, policies, now, nextId, ticks, last, procs>>

----------------------------------------------------------------------------
(* Bounds of the model *)

\* the last id the auditLogs table gives out: once it is used, every insert fails
MaxId == 4

\* the number of times the clock moves
MaxTicks == 1
\* the most rows the policy table holds before the first seeding
MaxPolicies == 2
\* the instances that seed at the same time
NSeeders == 2
\* the instances that sweep at the same time
NSweepers == 2

----------------------------------------------------------------------------
(* Optional values *)

None == <<>>
Some(x) == <<x>>
IsSome(o) == o # <<>>
Val(o) == o[1]

----------------------------------------------------------------------------
(* Date arithmetic of the JavaScript Date object, at day granularity *)

EpochYear == 2024

IsLeap(y) == (y % 4 = 0 /\ y % 100 # 0) \/ y % 400 = 0

DaysInYear(y) == IF IsLeap(y) THEN 366 ELSE 365

DaysInMonth(y, m) ==
    IF m = 2 THEN (IF IsLeap(y) THEN 29 ELSE 28)
    ELSE IF m \in {4, 6, 9, 11} THEN 30 ELSE 31

\* leap years from year 1 through year y
LeapYearsThrough(y) == (y \div 4) - (y \div 100) + (y \div 400)

DaysBeforeYear(y) ==
    365 * (y - EpochYear) + LeapYearsThrough(y - 1) - LeapYearsThrough(EpochYear - 1)

RECURSIVE DaysBeforeMonth(_, _)
DaysBeforeMonth(y, m) ==
    IF m <= 1 THEN 0 ELSE DaysBeforeMonth(y, m - 1) + DaysInMonth(y, m - 1)

\* MakeDay: a day of the month past the month's end runs over into the next month
MakeDay(y, m, d) == DaysBeforeYear(y) + DaysBeforeMonth(y, m) + d - 1

RECURSIVE YearFrom(_, _)
YearFrom(y, t) == IF t < DaysBeforeYear(y + 1) THEN y ELSE YearFrom(y + 1, t)

getFullYear(t) == YearFrom(EpochYear + (t \div 366), t)

RECURSIVE MonthFrom(_, _, _)
MonthFrom(y, m, n) ==
    IF n < DaysInMonth(y, m) THEN m ELSE MonthFrom(y, m + 1, n - DaysInMonth(y, m))

getMonth(t) == MonthFrom(getFullYear(t), 1, t - DaysBeforeYear(getFullYear(t)))

getDate(t) == t - MakeDay(getFullYear(t), getMonth(t), 1) + 1

\* date.setDate(d): same year and month, day of the month d (any integer)
setDate(t, d) == MakeDay(getFullYear(t), getMonth(t), d)

\* date.setFullYear(y): same month and day of the month in year y
setFullYear(t, y) == MakeDay(y, getMonth(t), getDate(t))

----------------------------------------------------------------------------
(* Values passed to logAction *)

\* detail payloads (params.details), by what JSON.stringify and truthiness make of them
DeletedCount(n) == [kind |-> "deletedCount", n |-> n]   \* { deletedCount: n }
PlainObject == [kind |-> "object", n |-> 1]              \* { note: 1 }
Circular == [kind |-> "circular", n |-> 0]               \* an object that contains itself
FunctionValue == [kind |-> "function", n |-> 0]          \* a function

\* JavaScript truthiness of params.details
Truthy(d) == IsSome(d)

\* JSON.stringify(v): throws on a circular structure, gives undefined for a function
JSONstringify(v) ==
    [threw |-> v.kind = "circular",
     value |-> CASE v.kind = "deletedCount" -> Some("{\"deletedCount\":" \o ToString(v.n) \o "}")
                 [] v.kind = "object" -> Some("{\"note\":" \o ToString(v.n) \o "}")
                 [] OTHER -> None]

\* String.prototype.toUpperCase on the action names in use
toUpperCase(s) ==
    CASE s = "login" -> "LOGIN"
      [] s = "cleanup_expired_logs" -> "CLEANUP_EXPIRED_LOGS"
      [] OTHER -> s

Params(userId, action, entityType, entityId, details, successful, errorMessage) ==
    [userId |-> userId, action |-> action, entityType |-> entityType,
     entityId |-> entityId, details |-> details, successful |-> successful,
     errorMessage |-> errorMessage]

\* the action descriptors callers pass to logAction
Descriptors ==
    { Params("u1", Some("login"), "call_logs", Some("A1"), Some(PlainObject), None, None),
      Params("u1", Some("login"), "call_logs", Some("A1"), Some(Circular), None, None),
      Params("u1", Some("login"), "user", Some("A2"), Some(FunctionValue), Some(FALSE), Some("denied")),
      Params("u1", None, "user", None, None, None, None),
      Params("system", Some("cleanup_expired_logs"), "audit_logs", None, None, Some(TRUE), None) }

\* values a failing database call throws
Errors ==
    { [isError |-> TRUE, message |-> "connection terminated"],
      [isError |-> FALSE, message |-> ""] }

----------------------------------------------------------------------------
(* The dataRetentionPolicies table *)

Policy(dataType, days, isActive) ==
    [dataType |-> dataType, retentionPeriodDays |-> days, isActive |-> isActive]

\* contents of the table at start
NoPolicies == <<>>

NegativePeriod == <<Policy("audit_logs", -1, TRUE), Policy("call_logs", 1, FALSE)>>

TwoActive ==
    <<Policy("call_logs", 1, TRUE), Policy("call_logs", 0, TRUE),
      Policy("audit_logs", 2190, TRUE)>>

\* mutant: the isActive condition is missing
ActivePolicies_AnyRow(table, entityType) ==
    SelectSeq(table, LAMBDA p : p.dataType = entityType)

\* the rows of the table matching eq(dataType, entityType) and eq(isActive, true)
ActivePolicies(table, entityType) ==
    SelectSeq(table, LAMBDA p : p.dataType = entityType /\ p.isActive)

\* the orders in which a select without ORDER BY can return rows
Orders(rows) ==
    LET n == Len(rows)
        perms == {f \in [1..n -> 1..n] : \A i, j \in 1..n : f[i] = f[j] => i = j}
    IN {[i \in 1..n |-> rows[f[i]]] : f \in perms}

\* outcomes of the select in calculateRetentionDate
SelectOutcomes(table, entityType) ==
    {[ok |-> FALSE, rows |-> <<>>]} \cup
    {[ok |-> TRUE, rows |-> r] : r \in Orders(ActivePolicies(table, entityType))}

----------------------------------------------------------------------------
(* AuditService.calculateRetentionDate *)

\* mutants: a failed lookup falls back to seven years; the fallback counts 2555 days
calculateRetentionDate_NoNull(sel, t) ==
    IF sel.ok /\ sel.rows # <<>>
    THEN Some(setDate(t, getDate(t) + Head(sel.rows).retentionPeriodDays))
    ELSE Some(setFullYear(t, getFullYear(t) + 7))

calculateRetentionDate_Days(sel, t) ==
    IF ~sel.ok
    THEN None
    ELSE IF sel.rows # <<>>
    THEN Some(setDate(t, getDate(t) + Head(sel.rows).retentionPeriodDays))
    ELSE Some(setDate(t, getDate(t) + 2555))

\* mutant: setDate is given the period, not the day of the month plus the period
calculateRetentionDate_SetsDay(sel, t) ==
    IF ~sel.ok
    THEN None
    ELSE IF sel.rows # <<>>
    THEN Some(setDate(t, Head(sel.rows).retentionPeriodDays))
    ELSE Some(setFullYear(t, getFullYear(t) + 7))

\* sel is the outcome of the policy select, t the value of new Date()
calculateRetentionDate(sel, t) ==
    IF ~sel.ok
    THEN None                                        \* catch: return null
    ELSE IF sel.rows # <<>>
    THEN Some(setDate(t, getDate(t) + Head(sel.rows).retentionPeriodDays))
    ELSE Some(setFullYear(t, getFullYear(t) + 7))

----------------------------------------------------------------------------
(* AuditService.logAction *)

\* the row that db.insert(auditLogs).values(auditLog) stores
AuditLog(id, params, retentionDate) ==
    [id |-> id,
     userId |-> params.userId,
     action |-> toUpperCase(Val(params.action)),
     entityType |-> params.entityType,
     entityId |-> params.entityId,
     details |-> IF Truthy(params.details)
                 THEN JSONstringify(Val(params.details)).value
                 ELSE None,
     successful |-> IF IsSome(params.successful) THEN Val(params.successful) ELSE TRUE,
     errorMessage |-> params.errorMessage,
     retentionDate |-> retentionDate]

\* the row the table keeps for an inserted auditLog: the timestamp column is
\* filled with the time of the insert
Stored(log, t) ==
    [id |-> log.id,
     userId |-> log.userId,
     action |-> log.action,
     entityType |-> log.entityType,
     entityId |-> log.entityId,
     details |-> log.details,
     successful |-> log.successful,
     errorMessage |-> log.errorMessage,
     retentionDate |-> log.retentionDate,
     timestamp |-> t]

\* building the auditLog object throws: toUpperCase of undefined, or JSON.stringify
BuildThrows(params) ==
    \/ ~IsSome(params.action)
    \/ Truthy(params.details) /\ JSONstringify(Val(params.details)).threw

\* mutant: the insert is outside the try block
logAction_InsertOutsideTry(logs, params, sel, insertOk, t, id) ==
    IF BuildThrows(params)
    THEN [logs |-> logs, raised |-> FALSE, inserted |-> FALSE]
    ELSE IF ~insertOk
    THEN [logs |-> logs, raised |-> TRUE, inserted |-> FALSE]
    ELSE [logs |-> logs \cup {Stored(AuditLog(id, params, calculateRetentionDate(sel, t)), t)},
          raised |-> FALSE, inserted |-> TRUE]

\* logs: the table before the call; sel, insertOk: the outcomes of the two database
\* calls; t: the time of the call; id: the id the table gives the next row.
\* The result: the table afterwards, whether the call raised, whether a row went in.
logAction(logs, params, sel, insertOk, t, id) ==
    LET retentionDate == calculateRetentionDate(sel, t)
        thrown == BuildThrows(params) \/ ~insertOk
    IN  IF thrown
        THEN [logs |-> logs, raised |-> FALSE, inserted |-> FALSE]   \* catch: console.error
        ELSE [logs |-> logs \cup {Stored(AuditLog(id, params, retentionDate), t)},
              raised |-> FALSE, inserted |-> TRUE]

----------------------------------------------------------------------------
(* AuditService.cleanupExpiredLogs *)

\* mutants: rows with a NULL retentionDate match too; the comparison is on the
\* timestamp column
Expired_NullExpires(logs, t) ==
    {e \in logs : ~IsSome(e.retentionDate) \/ Val(e.retentionDate) < t}

Expired_ByTimestamp(logs, t) ==
    {e \in logs : e.timestamp < t}

\* mutant: lte instead of lt
Expired_Lte(logs, t) ==
    {e \in logs : IsSome(e.retentionDate) /\ Val(e.retentionDate) <= t}

\* the rows matching lt(auditLogs.retentionDate, now): NULL never compares below
Expired(logs, t) ==
    {e \in logs : IsSome(e.retentionDate) /\ Val(e.retentionDate) < t}

\* error instanceof Error ? error.message : "Unknown error"
ErrorMessage(error) == IF error.isError THEN error.message ELSE "Unknown error"

\* mutant: the detail does not carry the count
CleanupSucceeded_NoCount(n) ==
    Params("system", Some("CLEANUP_EXPIRED_LOGS"), "audit_logs", None,
           Some(DeletedCount(0)), Some(TRUE), None)

\* the descriptors of the two self-logging calls
CleanupSucceeded(n) ==
    Params("system", Some("CLEANUP_EXPIRED_LOGS"), "audit_logs", None,
           Some(DeletedCount(n)), Some(TRUE), None)

CleanupFailed(error) ==
    Params("system", Some("CLEANUP_EXPIRED_LOGS"), "audit_logs", None,
           None, Some(FALSE), Some(ErrorMessage(error)))

\* mutants: the catch block does not log; the catch block rethrows; the call
\* returns the number of rows left
cleanupExpiredLogs_SilentCatch(logs, t, deleteOk, error, sel, insertOk, t2, id) ==
    IF deleteOk
    THEN LET deletedLogs == Expired(logs, t)
             r == logAction(logs \ deletedLogs, CleanupSucceeded(Cardinality(deletedLogs)),
                            sel, insertOk, t2, id)
         IN  [logs |-> r.logs, raised |-> r.raised, inserted |-> r.inserted,
              ret |-> Cardinality(deletedLogs)]
    ELSE [logs |-> logs, raised |-> FALSE, inserted |-> FALSE, ret |-> 0]

cleanupExpiredLogs_Rethrow(logs, t, deleteOk, error, sel, insertOk, t2, id) ==
    IF deleteOk
    THEN LET deletedLogs == Expired(logs, t)
             r == logAction(logs \ deletedLogs, CleanupSucceeded(Cardinality(deletedLogs)),
                            sel, insertOk, t2, id)
         IN  [logs |-> r.logs, raised |-> r.raised, inserted |-> r.inserted,
              ret |-> Cardinality(deletedLogs)]
    ELSE LET r == logAction(logs, CleanupFailed(error), sel, insertOk, t2, id)
         IN  [logs |-> r.logs, raised |-> TRUE, inserted |-> r.inserted, ret |-> 0]

cleanupExpiredLogs_CountsLeft(logs, t, deleteOk, error, sel, insertOk, t2, id) ==
    IF deleteOk
    THEN LET deletedLogs == Expired(logs, t)
             r == logAction(logs \ deletedLogs, CleanupSucceeded(Cardinality(deletedLogs)),
                            sel, insertOk, t2, id)
         IN  [logs |-> r.logs, raised |-> r.raised, inserted |-> r.inserted,
              ret |-> Cardinality(logs \ deletedLogs)]
    ELSE LET r == logAction(logs, CleanupFailed(error), sel, insertOk, t2, id)
         IN  [logs |-> r.logs, raised |-> r.raised, inserted |-> r.inserted, ret |-> 0]

\* mutant: the expired rows are kept with the user blanked instead of deleted
cleanupExpiredLogs_Anonymises(logs, t, deleteOk, error, sel, insertOk, t2, id) ==
    IF deleteOk
    THEN LET deletedLogs == Expired(logs, t)
             blanked == {[e EXCEPT !.userId = "***REDACTED***"] : e \in deletedLogs}
             r == logAction((logs \ deletedLogs) \cup blanked,
                            CleanupSucceeded(Cardinality(deletedLogs)),
                            sel, insertOk, t2, id)
         IN  [logs |-> r.logs, raised |-> r.raised, inserted |-> r.inserted,
              ret |-> Cardinality(deletedLogs)]
    ELSE LET r == logAction(logs, CleanupFailed(error), sel, insertOk, t2, id)
         IN  [logs |-> r.logs, raised |-> r.raised, inserted |-> r.inserted, ret |-> 0]

\* mutant: the delete counts the expired rows and leaves them in the table
cleanupExpiredLogs_CountsOnly(logs, t, deleteOk, error, sel, insertOk, t2, id) ==
    IF deleteOk
    THEN LET deletedLogs == Expired(logs, t)
             r == logAction(logs, CleanupSucceeded(Cardinality(deletedLogs)),
                            sel, insertOk, t2, id)
         IN  [logs |-> r.logs, raised |-> r.raised, inserted |-> r.inserted,
              ret |-> Cardinality(deletedLogs)]
    ELSE LET r == logAction(logs, CleanupFailed(error), sel, insertOk, t2, id)
         IN  [logs |-> r.logs, raised |-> r.raised, inserted |-> r.inserted, ret |-> 0]

\* logs: the table before the call; t: the call's now; deleteOk, error: the outcome of
\* the delete; sel, insertOk, t2, id: as for the logAction call it makes at time t2.
cleanupExpiredLogs(logs, t, deleteOk, error, sel, insertOk, t2, id) ==
    IF deleteOk
    THEN LET deletedLogs == Expired(logs, t)
             r == logAction(logs \ deletedLogs, CleanupSucceeded(Cardinality(deletedLogs)),
                            sel, insertOk, t2, id)
         IN  [logs |-> r.logs, raised |-> r.raised, inserted |-> r.inserted,
              ret |-> Cardinality(deletedLogs)]
    ELSE LET r == logAction(logs, CleanupFailed(error), sel, insertOk, t2, id)
         IN  [logs |-> r.logs, raised |-> r.raised, inserted |-> r.inserted, ret |-> 0]

----------------------------------------------------------------------------
(* AuditService.initializeDefaultPolicies *)

\* the list the seeding walks, in its order (description and legalBasis left out)
defaultPolicies ==
    << [dataType |-> "call_logs", retentionPeriodDays |-> 2555],
       [dataType |-> "appointments", retentionPeriodDays |-> 2555],
       [dataType |-> "audit_logs", retentionPeriodDays |-> 2190],
       [dataType |-> "user", retentionPeriodDays |-> 1095],
       [dataType |-> "consent_records", retentionPeriodDays |-> 2190] >>

DefaultTypes == {defaultPolicies[i].dataType : i \in 1..Len(defaultPolicies)}

\* the row the table keeps for an inserted default: the isActive column, which the
\* seeding does not set, takes its default
InsertedPolicy(policy) == Policy(policy.dataType, policy.retentionPeriodDays, TRUE)

\* mutant: the existence check looks at active rows only
Existing_ActiveOnly(table, dataType) ==
    SelectSeq(table, LAMBDA p : p.dataType = dataType /\ p.isActive)

\* the rows matching eq(dataRetentionPolicies.dataType, policy.dataType)
Existing(table, dataType) ==
    SelectSeq(table, LAMBDA p : p.dataType = dataType)

\* the database call of the loop that throws, if one does: the select or the insert
\* of the i-th default
NoFailure == None
FailureAt(i, call) == Some([at |-> i, call |-> call])

\* mutant: every default is inserted, with no existence check
RECURSIVE SeedAll(_, _, _)
SeedAll(table, i, fail) ==
    IF i > Len(defaultPolicies)
    THEN [policies |-> table, failed |-> FALSE, raised |-> FALSE]
    ELSE IF fail = FailureAt(i, "select") \/ fail = FailureAt(i, "insert")
    THEN [policies |-> table, failed |-> TRUE, raised |-> FALSE]
    ELSE SeedAll(Append(table, InsertedPolicy(defaultPolicies[i])), i + 1, fail)

initializeDefaultPolicies_NoCheck(table, fail) == SeedAll(table, 1, fail)

\* mutant: a throwing call is caught inside the loop, which goes on with the next
\* default
RECURSIVE SeedOn(_, _, _, _)
SeedOn(table, i, fail, failed) ==
    IF i > Len(defaultPolicies)
    THEN [policies |-> table, failed |-> failed, raised |-> FALSE]
    ELSE LET policy == defaultPolicies[i]
         IN  IF fail = FailureAt(i, "select")
             THEN SeedOn(table, i + 1, fail, TRUE)
             ELSE IF Len(Existing(table, policy.dataType)) = 0
             THEN IF fail = FailureAt(i, "insert")
                  THEN SeedOn(table, i + 1, fail, TRUE)
                  ELSE SeedOn(Append(table, InsertedPolicy(policy)), i + 1, fail, failed)
             ELSE SeedOn(table, i + 1, fail, failed)

initializeDefaultPolicies_CatchInLoop(table, fail) == SeedOn(table, 1, fail, FALSE)

\* the loop from the i-th default on; a throwing call ends it in the catch block,
\* which only logs
RECURSIVE SeedFrom(_, _, _)
SeedFrom(table, i, fail) ==
    IF i > Len(defaultPolicies)
    THEN [policies |-> table, failed |-> FALSE, raised |-> FALSE]
    ELSE LET policy == defaultPolicies[i]
         IN  IF fail = FailureAt(i, "select")
             THEN [policies |-> table, failed |-> TRUE, raised |-> FALSE]
             ELSE IF Len(Existing(table, policy.dataType)) = 0
             THEN IF fail = FailureAt(i, "insert")
                  THEN [policies |-> table, failed |-> TRUE, raised |-> FALSE]
                  ELSE SeedFrom(Append(table, InsertedPolicy(policy)), i + 1, fail)
             ELSE SeedFrom(table, i + 1, fail)

\* table: the policy table before the call; fail: the call that throws, if any.
\* The result: the table afterwards, whether a call threw, whether the call raised.
initializeDefaultPolicies(table, fail) == SeedFrom(table, 1, fail)

----------------------------------------------------------------------------
(* AuditService.getAuditTrail *)

DefaultLimit == 100

Min(a, b) == IF a <= b THEN a ELSE b

\* mutant: the entityId condition is missing
Matching_TypeOnly(logs, entityType, entityId) ==
    {e \in logs : e.entityType = entityType}

\* the rows matching eq(entityType, entityType) and eq(entityId, entityId): a NULL
\* entityId equals nothing
Matching(logs, entityType, entityId) ==
    {e \in logs : e.entityType = entityType /\ e.entityId = Some(entityId)}

\* the orders a set of rows with one timestamp can come in
RECURSIVE AnyOrder(_)
AnyOrder(rows) ==
    IF rows = {}
    THEN {<<>>}
    ELSE UNION {{<<e>> \o s : s \in AnyOrder(rows \ {e})} : e \in rows}

\* orderBy(auditLogs.timestamp): the ascending orders of the rows, the earlier half
\* of the timestamps before the later half; rows with equal timestamps come in any
\* order
RECURSIVE OrderByTimestamp(_)
OrderByTimestamp(rows) ==
    IF rows = {}
    THEN {<<>>}
    ELSE LET stamps == {e.timestamp : e \in rows}
             least == CHOOSE m \in stamps : \A x \in stamps : m <= x
             greatest == CHOOSE m \in stamps : \A x \in stamps : m >= x
         IN  IF least = greatest
             THEN AnyOrder(rows)
             ELSE LET early == {e \in rows : e.timestamp <= (least + greatest) \div 2}
                  IN  {a \o b : a \in OrderByTimestamp(early),
                                b \in OrderByTimestamp(rows \ early)}

\* limit(limit)
Limit(s, limit) == SubSeq(s, 1, Min(limit, Len(s)))

\* mutant: no catch block around the select
getAuditTrail_NoCatch(logs, entityType, entityId, limit, selectOk) ==
    IF ~selectOk
    THEN {[raised |-> TRUE, rows |-> <<>>]}
    ELSE {[raised |-> FALSE,
           rows |-> Limit(s, IF IsSome(limit) THEN Val(limit) ELSE DefaultLimit)] :
             s \in OrderByTimestamp(Matching(logs, entityType, entityId))}

\* logs: the table; limit: the third argument, if given; selectOk: the outcome of
\* the select. The result: the ways the call can end, each with whether it raised
\* and the list it returned; a throwing select ends in the catch block, which
\* returns [].
getAuditTrail(logs, entityType, entityId, limit, selectOk) ==
    IF ~selectOk
    THEN {[raised |-> FALSE, rows |-> <<>>]}
    ELSE {[raised |-> FALSE,
           rows |-> Limit(s, IF IsSome(limit) THEN Val(limit) ELSE DefaultLimit)] :
             s \in OrderByTimestamp(Matching(logs, entityType, entityId))}

----------------------------------------------------------------------------
(* AuditService.redactPII *)

\* JavaScript values: a type tag and the value; an object is a function from its
\* keys to values
JUndefined == [type |-> "undefined", v |-> "undefined"]
JNull == [type |-> "null", v |-> "null"]
JBoolean(b) == [type |-> "boolean", v |-> b]
JNumber(n) == [type |-> "number", v |-> n]
JString(str) == [type |-> "string", v |-> str]
JObject(fields) == [type |-> "object", v |-> fields]

\* the truthiness tested by !data and by if (redacted[field])
ToBoolean(x) ==
    CASE x.type = "undefined" -> FALSE
      [] x.type = "null" -> FALSE
      [] x.type = "boolean" -> x.v
      [] x.type = "number" -> x.v # 0
      [] x.type = "string" -> x.v # ""
      [] OTHER -> TRUE

CharAt(str, i) == SubSeq(str, i, i)

Digits == {"0", "1", "2", "3", "4", "5", "6", "7", "8", "9"}

\* the length of the run of digits of str that starts at position i
RECURSIVE DigitRun(_, _)
DigitRun(str, i) ==
    IF i <= Len(str) /\ CharAt(str, i) \in Digits THEN 1 + DigitRun(str, i + 1) ELSE 0

\* mutant: the first group takes one digit only
ReplacePhone_ShortCode(str) ==
    LET starts == {i \in 1..Len(str) : CharAt(str, i) = "+" /\ DigitRun(str, i + 1) >= 5}
    IN  IF starts = {}
        THEN str
        ELSE LET i == CHOOSE m \in starts : \A x \in starts : m <= x
                 run == DigitRun(str, i + 1)
             IN  SubSeq(str, 1, i + 4) \o "***" \o SubSeq(str, i + run + 1, Len(str))

\* str.replace(/(\+\d{1,3})(\d{3})(\d+)/, '$1$2***'): the leftmost '+' followed by
\* five digits or more; the greedy groups take up to three digits, three digits and
\* the rest of the run; what is around the match stays
ReplacePhone(str) ==
    LET starts == {i \in 1..Len(str) : CharAt(str, i) = "+" /\ DigitRun(str, i + 1) >= 5}
    IN  IF starts = {}
        THEN str
        ELSE LET i == CHOOSE m \in starts : \A x \in starts : m <= x
                 run == DigitRun(str, i + 1)
                 code == Min(3, run - 4)
             IN  SubSeq(str, 1, i + code + 3) \o "***" \o SubSeq(str, i + run + 1, Len(str))

\* str.replace(/(.)(.*?)(@.*)/, '$1***$3') on a one-line string: the match starts at
\* the first character and the lazy group ends at the first '@' after it
ReplaceEmail(str) ==
    LET ats == {j \in 2..Len(str) : CharAt(str, j) = "@"}
    IN  IF ats = {}
        THEN str
        ELSE LET j == CHOOSE m \in ats : \A x \in ats : m <= x
             IN  SubSeq(str, 1, 1) \o "***" \o SubSeq(str, j, Len(str))

\* fieldsToRedact when the caller gives none
DefaultFields == <<"phone", "email", "name", "address">>

\* the for loop from the i-th field on, over the copy; replace is not a function
\* of a value that is no string, and calling it throws
RECURSIVE RedactFields(_, _, _)
RedactFields(redacted, fieldsToRedact, i) ==
    IF i > Len(fieldsToRedact)
    THEN [threw |-> FALSE, value |-> JObject(redacted)]
    ELSE LET field == fieldsToRedact[i]
             v == IF field \in DOMAIN redacted THEN redacted[field] ELSE JUndefined
         IN  IF ~ToBoolean(v)
             THEN RedactFields(redacted, fieldsToRedact, i + 1)
             ELSE IF field = "phone"
             THEN IF v.type # "string"
                  THEN [threw |-> TRUE, value |-> JUndefined]
                  ELSE RedactFields([redacted EXCEPT ![field] = JString(ReplacePhone(v.v))],
                                    fieldsToRedact, i + 1)
             ELSE IF field = "email"
             THEN IF v.type # "string"
                  THEN [threw |-> TRUE, value |-> JUndefined]
                  ELSE RedactFields([redacted EXCEPT ![field] = JString(ReplaceEmail(v.v))],
                                    fieldsToRedact, i + 1)
             ELSE RedactFields([redacted EXCEPT ![field] = JString("***REDACTED***")],
                               fieldsToRedact, i + 1)

\* mutant: the loop writes to the argument, not to a copy
redactPII_InPlace(data, fieldsToRedact) ==
    IF ~ToBoolean(data) \/ data.type # "object"
    THEN [threw |-> FALSE, value |-> data, data |-> data]
    ELSE LET r == RedactFields(data.v,
                               IF IsSome(fieldsToRedact) THEN Val(fieldsToRedact)
                               ELSE DefaultFields, 1)
         IN  [threw |-> r.threw, value |-> r.value,
              data |-> IF r.threw THEN data ELSE r.value]

\* { ...str }: the characters of a string under their indices
RECURSIVE SpreadString(_, _)
SpreadString(str, i) ==
    IF i > Len(str)
    THEN <<>>
    ELSE (ToString(i - 1) :> JString(CharAt(str, i))) @@ SpreadString(str, i + 1)

\* mutant: the guard tests !data only
redactPII_NoGuard(data, fieldsToRedact) ==
    IF ~ToBoolean(data)
    THEN [threw |-> FALSE, value |-> data, data |-> data]
    ELSE LET r == RedactFields(IF data.type = "object" THEN data.v
                               ELSE IF data.type = "string" THEN SpreadString(data.v, 1)
                               ELSE <<>>,
                               IF IsSome(fieldsToRedact) THEN Val(fieldsToRedact)
                               ELSE DefaultFields, 1)
         IN  [threw |-> r.threw, value |-> r.value, data |-> data]

\* data: the argument; fieldsToRedact: the second argument, if given. The result:
\* whether the call threw, the value returned, and the argument after the call
redactPII(data, fieldsToRedact) ==
    IF ~ToBoolean(data) \/ data.type # "object"
    THEN [threw |-> FALSE, value |-> data, data |-> data]
    ELSE LET r == RedactFields(data.v,
                               IF IsSome(fieldsToRedact) THEN Val(fieldsToRedact)
                               ELSE DefaultFields, 1)
         IN  [threw |-> r.threw, value |-> r.value, data |-> data]

----------------------------------------------------------------------------
(* Router: the page shown for a location and an authentication state *)

\* user?.role === 'admin'; user is an optional record
IsAdmin(user) == IsSome(user) /\ Val(user).role = "admin"

\* the routes of the Switch, in their order; gate is the condition of a route's
\* content: "auth" for isAuthenticated, "admin" for isAuthenticated and the admin
\* role, "home" for the three-way choice of the root route
routes ==
    << [path |-> "/call-logs", gate |-> "auth", view |-> "CallLogs"],
       [path |-> "/appointments", gate |-> "auth", view |-> "Appointments"],
       [path |-> "/ai-config", gate |-> "auth", view |-> "AiConfig"],
       [path |-> "/settings", gate |-> "auth", view |-> "Settings"],
       [path |-> "/simulations", gate |-> "auth", view |-> "Simulations"],
       [path |-> "/admin", gate |-> "admin", view |-> "AdminDashboard"],
       [path |-> "/admin/monitoring", gate |-> "admin", view |-> "AdminMonitoring"],
       [path |-> "/developer", gate |-> "auth", view |-> "DeveloperPortal"],
       [path |-> "/customer-success", gate |-> "auth", view |-> "CustomerSuccess"],
       [path |-> "/advanced-analytics", gate |-> "auth", view |-> "AdvancedAnalytics"],
       [path |-> "/enhanced-settings", gate |-> "auth", view |-> "EnhancedSettings"],
       [path |-> "/business-analytics", gate |-> "auth", view |-> "BusinessAnalytics"],
       [path |-> "/mobile", gate |-> "auth", view |-> "MobileApp"],
       [path |-> "/", gate |-> "home", view |-> "Dashboard"] >>

\* a Route matches the location that is its path, with or without a slash at the end
RouteMatches(pattern, location) ==
    \/ location = pattern
    \/ location = pattern \o "/"

\* mutant: the admin routes ask for a signed-in user only
Content_AdminByAuthOnly(route, isAuthenticated, user) ==
    IF route.gate = "home"
    THEN IF ~isAuthenticated THEN "Landing"
         ELSE IF IsAdmin(user) THEN "AdminDashboard" ELSE "Dashboard"
    ELSE IF isAuthenticated THEN route.view ELSE "Landing"

\* the children of a Route
Content(route, isAuthenticated, user) ==
    IF route.gate = "home"
    THEN IF ~isAuthenticated THEN "Landing"
         ELSE IF IsAdmin(user) THEN "AdminDashboard" ELSE "Dashboard"
    ELSE IF route.gate = "admin"
    THEN IF isAuthenticated /\ IsAdmin(user) THEN route.view ELSE "Landing"
    ELSE IF isAuthenticated THEN route.view ELSE "Landing"

\* the Switch renders its first matching Route, the Route without a path last
RECURSIVE Switch(_, _, _, _)
Switch(i, location, isAuthenticated, user) ==
    IF i > Len(routes) THEN "NotFound"
    ELSE IF RouteMatches(routes[i].path, location)
    THEN Content(routes[i], isAuthenticated, user)
    ELSE Switch(i + 1, location, isAuthenticated, user)

\* what Router renders: the spinner while loading, the Switch afterwards
Router(isLoading, isAuthenticated, user, location) ==
    IF isLoading THEN "Loading"
    ELSE Switch(1, location, isAuthenticated, user)

\* no rendering recorded
NoRoute ==
    [isLoading |-> FALSE, isAuthenticated |-> FALSE, user |-> None,
     location |-> "none", view |-> "none"]

----------------------------------------------------------------------------
(* The state machine *)

\* the policy table and the clock when the service starts
Starts ==
    { <<NoPolicies, MakeDay(2024, 2, 29)>>,
      <<NoPolicies, MakeDay(2025, 1, 10)>>,
      <<NoPolicies, MakeDay(2096, 3, 1)>>,
      <<NegativePeriod, MakeDay(2025, 1, 10)>>,
      <<TwoActive, MakeDay(2025, 1, 10)>> }

\* rows recorded before the start at time t: one expired, one expiring at t, one
\* recorded while the policy lookup failed; the last two went in on the same day
Recorded == Params("u1", Some("login"), "call_logs", Some("A1"), Some(PlainObject), None, None)

InitialLogs(t) ==
    {Stored(AuditLog(1, Recorded, Some(t - 1)), t - 2),
     Stored(AuditLog(2, Recorded, Some(t)), t - 1),
     Stored(AuditLog(3, Recorded, None), t - 1)}

\* the delete threw nothing
NoError == [isError |-> FALSE, message |-> "none"]

\* the last call that returned, with the outcomes of its database calls
NoCall ==
    [op |-> "none", raised |-> FALSE, ret |-> 0, t |-> 0, pre |-> {},
     params |-> CleanupSucceeded(0), sel |-> [ok |-> TRUE, rows |-> <<>>],
     insertOk |-> TRUE, deleteOk |-> TRUE, error |-> NoError, inserted |-> FALSE,
     policiesPre |-> <<>>, failed |-> FALSE,
     query |-> [entityType |-> "none", entityId |-> "none", limit |-> None],
     rows |-> <<>>,
     data |-> JUndefined, fields |-> None, value |-> JUndefined, dataAfter |-> JUndefined,
     route |-> NoRoute]

\* the calls in progress on other instances: none
NoProcs ==
    [sweepers |-> <<>>, recorder |-> [pc |-> "done", retentionDate |-> None],
     seeders |-> <<>>, stored |-> {}]

Init ==
    /\ \E start \in Starts : policies = start[1] /\ now = start[2]
    /\ auditLogs = InitialLogs(now)
    /\ nextId = Cardinality(auditLogs) + 1
    /\ ticks = 0
    /\ last = NoCall
    /\ procs = NoProcs

\* time passes, with no call in progress: the outcomes of the last call are dropped
Tick ==
    /\ ticks < MaxTicks
    /\ now' = now + 1
    /\ ticks' = ticks + 1
    /\ last' = NoCall
    /\ UNCHANGED <<auditLogs, policies, nextId, procs>>

\* the outcomes of the insert of logAction: it is reached only when the build
\* succeeds, and it fails when the table has no id left
InsertOutcomes(params, id) ==
    IF BuildThrows(params) THEN {TRUE}
    ELSE IF id > MaxId THEN {FALSE}
    ELSE BOOLEAN

\* a caller records an action
LogAction ==
    /\ \E params \in Descriptors :
       \E insertOk \in InsertOutcomes(params, nextId), sel \in SelectOutcomes(policies, params.entityType) :
          LET r == logAction(auditLogs, params, sel, insertOk, now, nextId)
          IN  /\ auditLogs' = r.logs
              /\ nextId' = IF r.inserted THEN nextId + 1 ELSE nextId
              /\ last' = [NoCall EXCEPT !.op = "logAction", !.raised = r.raised,
                             !.t = now, !.pre = auditLogs, !.params = params,
                             !.sel = sel, !.insertOk = insertOk,
                             !.inserted = r.inserted]
    /\ UNCHANGED <<policies, now, ticks, procs>>

\* the scheduler runs the sweeper; the clock may move between the delete and the
\* new Date() of the self-logging call
CleanupExpiredLogs ==
    /\ \E deleteOk \in BOOLEAN, insertOk \in InsertOutcomes(CleanupSucceeded(0), nextId),
          dt \in (IF ticks < MaxTicks THEN {0, 1} ELSE {0}) :
       \E error \in (IF deleteOk THEN {NoError} ELSE Errors),
          sel \in SelectOutcomes(policies, "audit_logs") :
          LET r == cleanupExpiredLogs(auditLogs, now, deleteOk, error, sel, insertOk,
                                      now + dt, nextId)
          IN  /\ auditLogs' = r.logs
              /\ nextId' = IF r.inserted THEN nextId + 1 ELSE nextId
              /\ now' = now + dt
              /\ ticks' = IF dt = 0 THEN ticks ELSE ticks + 1
              /\ last' = [NoCall EXCEPT !.op = "cleanupExpiredLogs", !.raised = r.raised,
                             !.ret = r.ret, !.t = now, !.pre = auditLogs,
                             !.params = IF deleteOk THEN CleanupSucceeded(r.ret)
                                        ELSE CleanupFailed(error),
                             !.sel = sel, !.insertOk = insertOk, !.deleteOk = deleteOk,
                             !.error = error,
                             !.inserted = r.inserted]
    /\ UNCHANGED <<policies, procs>>

Next == Tick \/ LogAction \/ CleanupExpiredLogs

Spec == Init /\ [][Next]_vars

----------------------------------------------------------------------------
(* Seeding the policy table *)

\* the calls of the seeding loop that can throw
SeedFailures ==
    {NoFailure} \cup {FailureAt(i, call) : i \in 1..Len(defaultPolicies),
                                           call \in {"select", "insert"}}

\* the process start seeds the defaults
InitializeDefaultPolicies ==
    /\ \E fail \in SeedFailures :
          LET r == initializeDefaultPolicies(policies, fail)
          IN  /\ policies' = r.policies
              /\ last' = [NoCall EXCEPT !.op = "initializeDefaultPolicies",
                             !.raised = r.raised, !.t = now, !.pre = auditLogs,
                             !.policiesPre = policies, !.failed = r.failed]
    /\ UNCHANGED <<auditLogs, now, nextId, ticks, procs>>

\* the policy tables the seeding may find: rows an administrator wrote, of default
\* and other types, active or not, several of one type included
SeedRows ==
    {Policy(dataType, days, isActive) :
        dataType \in {"call_logs", "user", "billing"}, days \in {30, 1095},
        isActive \in BOOLEAN}

SeedTables == UNION {[1..n -> SeedRows] : n \in 0..MaxPolicies}

InitSeed ==
    /\ policies \in SeedTables
    /\ now = MakeDay(2025, 1, 10)
    /\ auditLogs = InitialLogs(now)
    /\ nextId = Cardinality(auditLogs) + 1
    /\ ticks = 0
    /\ last = NoCall
    /\ procs = NoProcs

NextSeed == InitializeDefaultPolicies

SpecSeed == InitSeed /\ [][NextSeed]_vars

----------------------------------------------------------------------------
(* All the operations of the service *)

\* the limits a caller asks for; None: the default
TrailLimits == {None, Some(0), Some(1), Some(2)}

\* a caller reads the trail of an entity; sel.ok is the outcome of its select
GetAuditTrail ==
    /\ \E entityType \in {"call_logs", "user"}, entityId \in {"A1", "A2"},
          limit \in TrailLimits, selectOk \in BOOLEAN :
       \E r \in getAuditTrail(auditLogs, entityType, entityId, limit, selectOk) :
          last' = [NoCall EXCEPT !.op = "getAuditTrail", !.raised = r.raised,
                      !.t = now, !.pre = auditLogs,
                      !.sel = [ok |-> selectOk, rows |-> <<>>],
                      !.query = [entityType |-> entityType, entityId |-> entityId,
                                 limit |-> limit],
                      !.rows = r.rows]
    /\ UNCHANGED <<auditLogs, policies, now, nextId, ticks, procs>>

\* the object a select returns for a stored row
FromOption(o) == IF IsSome(o) THEN JString(Val(o)) ELSE JNull

RowObject(e) ==
    JObject([id |-> JNumber(e.id),
             userId |-> JString(e.userId),
             action |-> JString(e.action),
             entityType |-> JString(e.entityType),
             entityId |-> FromOption(e.entityId),
             details |-> FromOption(e.details),
             successful |-> JBoolean(e.successful),
             errorMessage |-> FromOption(e.errorMessage)])

\* values callers redact
RedactInputs ==
    << JNull,
       JNumber(7),
       JObject([phone |-> JString("+447700900123"), email |-> JString("jane@x.com"),
                name |-> JString("Jane Doe")]) >>

RedactFieldLists == {None, Some(<<"userId", "details">>)}

Redacting(data, fieldsToRedact) ==
    LET r == redactPII(data, fieldsToRedact)
    IN  last' = [NoCall EXCEPT !.op = "redactPII", !.raised = r.threw, !.t = now,
                    !.pre = auditLogs, !.data = data, !.fields = fieldsToRedact,
                    !.value = r.value, !.dataAfter = r.data]

\* a caller redacts a value of its own, or the object of a stored row
RedactPII ==
    /\ \E fieldsToRedact \in RedactFieldLists :
          \/ \E i \in 1..Len(RedactInputs) : Redacting(RedactInputs[i], fieldsToRedact)
          \/ \E e \in auditLogs : Redacting(RowObject(e), fieldsToRedact)
    /\ UNCHANGED <<auditLogs, policies, now, nextId, ticks, procs>>

\* a table with one row more than the default limit, all of one entity, recorded on
\* successive days before t and never expiring
LongTrail(t) ==
    {Stored(AuditLog(i, Recorded, None), t - (DefaultLimit + 2) + i) :
        i \in 1..(DefaultLimit + 1)}

\* the policy table after a seeding whose last insert failed
PartlySeeded == initializeDefaultPolicies(NoPolicies, FailureAt(5, "insert")).policies

InitOps ==
    /\ policies = PartlySeeded
    /\ now = MakeDay(2025, 1, 10)
    /\ auditLogs = InitialLogs(now)
    /\ nextId = Cardinality(auditLogs) + 1
    /\ ticks = 0
    /\ last = NoCall
    /\ procs = NoProcs

NextOps ==
    \/ Tick
    \/ LogAction
    \/ CleanupExpiredLogs
    \/ GetAuditTrail
    \/ RedactPII
    \/ InitializeDefaultPolicies

SpecOps == InitOps /\ [][NextOps]_vars

----------------------------------------------------------------------------
(* Reading trails while callers record *)

InitTrail ==
    /\ policies = NoPolicies
    /\ now = MakeDay(2025, 1, 10)
    /\ auditLogs \in {InitialLogs(now), LongTrail(now)}
    /\ nextId = Cardinality(auditLogs) + 1
    /\ ticks = 0
    /\ last = NoCall
    /\ procs = NoProcs

NextTrail == LogAction \/ GetAuditTrail

SpecTrail == InitTrail /\ [][NextTrail]_vars

----------------------------------------------------------------------------
(* Redacting values of every kind *)

\* arguments that are no objects
NonObjects ==
    << JNull, JUndefined, JNumber(42), JNumber(0), JString("abc"), JString(""),
       JBoolean(TRUE), JBoolean(FALSE) >>

\* values of a phone field: of the shape the regular expression looks for, too
\* short for it, without the '+', with spaces, with text around, no string, empty
PhoneValues ==
    << JString("+447700900123"), JString("+12345"), JString("+1234"),
       JString("07700 900123"), JString("+1 555 0100"),
       JString("tel +15551234567 ext 9"), JNumber(5551234), JString("") >>

\* values of an email field: with a local part of several characters, of one, of
\* none, without '@', with two '@', no string, empty
EmailValues ==
    << JString("jane@x.com"), JString("j@x.com"), JString("@x.com"),
       JString("janedoe"), JString("a@b@c"), JNumber(5), JString("") >>

\* values of another field
NameValues ==
    << JString("Jane Doe"), JString(""), JNumber(0), JNumber(42), JBoolean(FALSE),
       JNull, JObject([city |-> JString("Leeds")]) >>

\* the key and value of the i-th choice for a field; none for i = 0
Field(key, values, i) == IF i = 0 THEN <<>> ELSE key :> values[i]

\* an object with an id and the chosen phone, email and name values
RedactObject(ph, em, nm) ==
    JObject(("id" :> JNumber(7)) @@ Field("phone", PhoneValues, ph)
               @@ Field("email", EmailValues, em) @@ Field("name", NameValues, nm))

\* the field lists callers give; None: the default
FieldLists == {None, Some(<<"name", "zip">>), Some(<<"phone">>), Some(<<"email", "id">>)}

\* a caller is about to redact a value: last holds the arguments
Drawn(data, fieldsToRedact) ==
    last = [NoCall EXCEPT !.op = "drawn", !.data = data, !.fields = fieldsToRedact]

InitRedact ==
    /\ policies = NoPolicies
    /\ now = MakeDay(2025, 1, 10)
    /\ auditLogs = InitialLogs(now)
    /\ nextId = Cardinality(auditLogs) + 1
    /\ ticks = 0
    /\ procs = NoProcs
    /\ \E fieldsToRedact \in FieldLists :
          \/ \E i \in 1..Len(NonObjects) : Drawn(NonObjects[i], fieldsToRedact)
          \/ \E ph \in 0..Len(PhoneValues), em \in 0..Len(EmailValues),
                nm \in 0..Len(NameValues) :
                Drawn(RedactObject(ph, em, nm), fieldsToRedact)

\* the caller redacts the value drawn
RedactDrawn ==
    /\ last.op = "drawn"
    /\ Redacting(last.data, last.fields)
    /\ UNCHANGED <<auditLogs, policies, now, nextId, ticks, procs>>

NextRedact == RedactDrawn

SpecRedact == InitRedact /\ [][NextRedact]_vars

----------------------------------------------------------------------------
(* Rendering the router *)

\* what useAuth() can return for user: no user, or one of a role
Users == {None, Some([role |-> "admin"]), Some([role |-> "user"])}

\* the locations: every path of a route, some with a slash at the end, and some
\* that no route has
Locations ==
    {routes[i].path : i \in 1..Len(routes)}
       \cup {"/admin/", "/settings/", "/admin/users", "/reports", "/admin/monitoring/logs"}

\* the authentication state and the location of a rendering about to be made
Rendering(isLoading, isAuthenticated, user, location) ==
    last = [NoCall EXCEPT !.op = "rendering",
               !.route = [NoRoute EXCEPT !.isLoading = isLoading,
                             !.isAuthenticated = isAuthenticated, !.user = user,
                             !.location = location]]

InitRouter ==
    /\ policies = NoPolicies
    /\ now = MakeDay(2025, 1, 10)
    /\ auditLogs = InitialLogs(now)
    /\ nextId = Cardinality(auditLogs) + 1
    /\ ticks = 0
    /\ procs = NoProcs
    /\ \E isLoading \in BOOLEAN, isAuthenticated \in BOOLEAN, user \in Users,
          location \in Locations :
          Rendering(isLoading, isAuthenticated, user, location)

\* React renders Router
Render ==
    /\ last.op = "rendering"
    /\ last' = [last EXCEPT !.op = "Router",
                   !.route.view = Router(last.route.isLoading, last.route.isAuthenticated,
                                         last.route.user, last.route.location)]
    /\ UNCHANGED <<auditLogs, policies, now, nextId, ticks, procs>>

NextRouter == Render

SpecRouter == InitRouter /\ [][NextRouter]_vars

----------------------------------------------------------------------------
(* The scheduler sweeping for ever while time advances *)

\* the rows whose retention date the clock has not passed
Pending == {e \in auditLogs : IsSome(e.retentionDate) /\ Val(e.retentionDate) >= now}

\* time passes, with no call in progress, until the day after a pending row's
\* retention date
Advance ==
    /\ \E e \in Pending : now' = Val(e.retentionDate) + 1
    /\ last' = NoCall
    /\ UNCHANGED <<auditLogs, policies, nextId, ticks, procs>>

\* a run of the sweeper whose delete succeeds
SweepSucceeds == CleanupExpiredLogs /\ last'.deleteOk

NextLive == Advance \/ CleanupExpiredLogs

\* a start with policies for the rows recorded and for the sweeper's own rows
InitLive ==
    /\ policies = TwoActive
    /\ now = MakeDay(2025, 1, 10)
    /\ auditLogs = InitialLogs(now)
    /\ nextId = Cardinality(auditLogs) + 1
    /\ ticks = 0
    /\ last = NoCall
    /\ procs = NoProcs

\* the scheduler runs the sweeper again and again and its delete succeeds again and
\* again; the clock goes on while a row's retention date is ahead
SpecLive ==
    /\ InitLive
    /\ [][NextLive]_vars
    /\ WF_vars(Advance)
    /\ SF_vars(SweepSucceeds)

----------------------------------------------------------------------------
(* Seedings racing on several instances *)

Seeders == 1..NSeeders

\* a seeder is at the select or at the insert of its i-th default, or has returned
SeederAt(pc, i) == [pc |-> pc, i |-> i]

\* where a seeder goes after the i-th default
AfterDefault(i) ==
    IF i = Len(defaultPolicies) THEN SeederAt("done", i) ELSE SeederAt("select", i + 1)

\* seeder p awaits the select of its i-th default and tests existing.length; a
\* throwing select ends the call in the catch block
SeedSelect(p) ==
    /\ procs.seeders[p].pc = "select"
    /\ \E selectOk \in BOOLEAN :
          LET i == procs.seeders[p].i
              existing == Existing(policies, defaultPolicies[i].dataType)
          IN  procs' = [procs EXCEPT !.seeders[p] =
                           IF ~selectOk THEN SeederAt("done", i)
                           ELSE IF Len(existing) = 0 THEN SeederAt("insert", i)
                           ELSE AfterDefault(i)]
    /\ UNCHANGED <<auditLogs, policies, now, nextId, ticks, last>>

\* seeder p awaits the insert of its i-th default
SeedInsert(p) ==
    /\ procs.seeders[p].pc = "insert"
    /\ \E insertOk \in BOOLEAN :
          LET i == procs.seeders[p].i
          IN  /\ policies' = IF insertOk
                             THEN Append(policies, InsertedPolicy(defaultPolicies[i]))
                             ELSE policies
              /\ procs' = [procs EXCEPT !.seeders[p] =
                              IF insertOk THEN AfterDefault(i) ELSE SeederAt("done", i)]
    /\ UNCHANGED <<auditLogs, now, nextId, ticks, last>>

InitSeedRace ==
    /\ policies \in {NoPolicies, PartlySeeded}
    /\ now = MakeDay(2025, 1, 10)
    /\ auditLogs = InitialLogs(now)
    /\ nextId = Cardinality(auditLogs) + 1
    /\ ticks = 0
    /\ last = NoCall
    /\ procs = [NoProcs EXCEPT !.seeders = [p \in Seeders |-> SeederAt("select", 1)]]

NextSeedRace == \E p \in Seeders : SeedSelect(p) \/ SeedInsert(p)

SpecSeedRace == InitSeedRace /\ [][NextSeedRace]_vars

----------------------------------------------------------------------------
(* Sweepers and a recorder running on several instances *)

Sweepers == 1..NSweepers

\* a sweeper before its new Date(); later its record also holds the now it read, the
\* outcome of its delete, the rows the delete returned and the value the call
\* returned, and until it returns the error caught and the table the delete found
Sweeping ==
    [pc |-> "now", t |-> 0, deleteOk |-> TRUE, error |-> NoError, pre |-> {},
     deletedLogs |-> {}, ret |-> 0]

\* sweeper p reads the clock
SweepNow(p) ==
    /\ procs.sweepers[p].pc = "now"
    /\ procs' = [procs EXCEPT !.sweepers[p].pc = "delete", !.sweepers[p].t = now]
    /\ UNCHANGED <<auditLogs, policies, now, nextId, ticks, last>>

\* sweeper p awaits its delete, one statement: it removes the rows that match at
\* that moment and returns them, or throws
SweepDelete(p) ==
    /\ procs.sweepers[p].pc = "delete"
    /\ \E deleteOk \in BOOLEAN :
       \E error \in (IF deleteOk THEN {NoError} ELSE Errors) :
          LET deletedLogs == IF deleteOk THEN Expired(auditLogs, procs.sweepers[p].t)
                             ELSE {}
          IN  /\ auditLogs' = auditLogs \ deletedLogs
              /\ procs' = [procs EXCEPT !.sweepers[p].pc = "log",
                              !.sweepers[p].deleteOk = deleteOk,
                              !.sweepers[p].error = error,
                              !.sweepers[p].pre = auditLogs,
                              !.sweepers[p].deletedLogs = deletedLogs]
    /\ UNCHANGED <<policies, now, nextId, ticks, last>>

\* sweeper p awaits its self-logging call and returns
SweepLog(p) ==
    /\ procs.sweepers[p].pc = "log"
    /\ \E insertOk \in InsertOutcomes(CleanupSucceeded(0), nextId),
          sel \in SelectOutcomes(policies, "audit_logs") :
          LET me == procs.sweepers[p]
              count == Cardinality(me.deletedLogs)
              r == logAction(auditLogs,
                             IF me.deleteOk THEN CleanupSucceeded(count)
                             ELSE CleanupFailed(me.error),
                             sel, insertOk, now, nextId)
          IN  /\ auditLogs' = r.logs
              /\ nextId' = IF r.inserted THEN nextId + 1 ELSE nextId
              /\ procs' = [procs EXCEPT !.sweepers[p].pc = "done",
                              !.sweepers[p].ret = IF me.deleteOk THEN count ELSE 0,
                              !.sweepers[p].error = NoError,
                              !.sweepers[p].pre = {},
                              !.stored = @ \cup r.logs]
    /\ UNCHANGED <<policies, now, ticks, last>>

\* the recorder awaits the policy lookup of its logAction call
RecordSelect ==
    /\ procs.recorder.pc = "select"
    /\ \E sel \in SelectOutcomes(policies, Recorded.entityType) :
          procs' = [procs EXCEPT !.recorder =
                       [pc |-> "insert", retentionDate |-> calculateRetentionDate(sel, now)]]
    /\ UNCHANGED <<auditLogs, policies, now, nextId, ticks, last>>

\* the recorder awaits its insert and returns
RecordInsert ==
    /\ procs.recorder.pc = "insert"
    /\ \E insertOk \in InsertOutcomes(Recorded, nextId) :
          LET row == Stored(AuditLog(nextId, Recorded, procs.recorder.retentionDate), now)
              logs == IF insertOk /\ ~BuildThrows(Recorded) THEN auditLogs \cup {row}
                      ELSE auditLogs
          IN  /\ auditLogs' = logs
              /\ nextId' = IF logs # auditLogs THEN nextId + 1 ELSE nextId
              /\ procs' = [procs EXCEPT !.recorder.pc = "done", !.stored = @ \cup logs]
    /\ UNCHANGED <<policies, now, ticks, last>>

InitSweep ==
    /\ policies = TwoActive
    /\ now = MakeDay(2025, 1, 10)
    /\ auditLogs = InitialLogs(now)
    /\ nextId = Cardinality(auditLogs) + 1
    /\ ticks = 0
    /\ last = NoCall
    /\ procs = [NoProcs EXCEPT !.sweepers = [p \in Sweepers |-> Sweeping],
                   !.recorder.pc = "select", !.stored = auditLogs]

NextSweep ==
    \/ Tick
    \/ \E p \in Sweepers : SweepNow(p) \/ SweepDelete(p) \/ SweepLog(p)
    \/ RecordSelect
    \/ RecordInsert

SpecSweep == InitSweep /\ [][NextSweep]_vars

----------------------------------------------------------------------------
(* Properties *)

\* the rows the last call added, and the rows it removed
Added == auditLogs \ last.pre
Removed == last.pre \ auditLogs

IsLog == last.op = "logAction"
IsCleanup == last.op = "cleanupExpiredLogs"

\* the self-authored rows among the added ones
SelfLogs == {e \in Added : e.action = "CLEANUP_EXPIRED_LOGS" /\ e.userId = "system"}

\* C1: logAction returns normally whatever the policy lookup and the insert do, and
\* a failed insert leaves the auditLogs table as it was.
C1_RecordNeverThrows ==
    IsLog => /\ ~last.raised
             /\ (~last.insertOk \/ BuildThrows(last.params) => auditLogs = last.pre)

C1_Witness ==
    IsLog /\ ~last.sel.ok /\ ~last.insertOk /\ ~last.raised /\ auditLogs = last.pre

\* C2 (as claimed): a detail payload that JSON.stringify cannot serialize counts as
\* no payload: the row is stored with a null detail when the insert succeeds.
C2_UnserializableStillPersisted ==
    (/\ IsLog
     /\ IsSome(last.params.action)
     /\ IsSome(last.params.details)
     /\ JSONstringify(Val(last.params.details)).threw
     /\ last.insertOk)
    => /\ ~last.raised
       /\ \E e \in Added : e.details = None /\ e.userId = last.params.userId

\* C3: a failed policy lookup does not raise and does not block the write: the row
\* goes in with a null retentionDate when the rest of the call succeeds.
C3_LookupFailureGivesNullExpiry ==
    (IsLog /\ ~last.sel.ok)
    => /\ ~last.raised
       /\ (~BuildThrows(last.params) /\ last.insertOk
             => /\ Cardinality(Added) = 1
                /\ \A e \in Added : /\ e.retentionDate = None
                                    /\ e.userId = last.params.userId
                                    /\ e.entityType = last.params.entityType)

C3_Witness ==
    IsLog /\ ~last.sel.ok /\ last.inserted
    /\ \E e \in Added : e.retentionDate = None

\* C4: a cleanup whose delete succeeds removes all and only the rows with a non-null
\* retentionDate strictly before its now; rows with a null retentionDate and rows
\* expiring at or after now stay.
C4_CleanupRemovesExactlyExpired ==
    (IsCleanup /\ last.deleteOk)
    => /\ Removed = {e \in last.pre : e.retentionDate # None /\ e.retentionDate[1] < last.t}
       /\ \A e \in last.pre :
             (e.retentionDate = None \/ e.retentionDate[1] >= last.t) => e \in auditLogs

C4_Witness ==
    /\ IsCleanup /\ last.deleteOk
    /\ Removed # {}
    /\ \E e \in last.pre \cap auditLogs : e.retentionDate = None
    /\ \E e \in last.pre \cap auditLogs : e.retentionDate = Some(last.t)

\* C5 (as claimed): after any cleanup call exactly one new row with action
\* CLEANUP_EXPIRED_LOGS and actor system exists.
C5_ExactlyOneSelfLog == IsCleanup => Cardinality(SelfLogs) = 1

\* C5 (amended): after any cleanup call there is exactly one such new row when the
\* insert of the self-logging call succeeded, and none when it failed.
C5_SelfLogWhenInsertSucceeds ==
    IsCleanup => /\ Cardinality(SelfLogs) = (IF last.insertOk THEN 1 ELSE 0)
                 /\ Added = SelfLogs

C5_Witness ==
    IsCleanup /\ ~last.deleteOk /\ last.insertOk /\ Cardinality(SelfLogs) = 1

\* C6: when the delete throws, cleanup does not raise, returns 0 and leaves every
\* stored row in place.
C6_FailedDeleteReturnsZero ==
    (IsCleanup /\ ~last.deleteOk)
    => /\ ~last.raised
       /\ last.ret = 0
       /\ last.pre \subseteq auditLogs

C6_Witness ==
    IsCleanup /\ ~last.deleteOk /\ ~last.raised /\ last.ret = 0
    /\ \E e \in last.pre : e.retentionDate # None /\ e.retentionDate[1] < last.t

\* C7: the self-authored row tells the outcome: successful with the deleted count
\* (the value returned) as detail after a delete that succeeded, not successful with
\* the error's message after one that threw.
C7_SelfLogReflectsOutcome ==
    IsCleanup =>
      \A e \in SelfLogs :
         IF last.deleteOk
         THEN /\ e.successful
              /\ e.details = Some("{\"deletedCount\":" \o ToString(last.ret) \o "}")
              /\ e.errorMessage = None
         ELSE /\ ~e.successful
              /\ e.errorMessage =
                   Some(IF last.error.isError THEN last.error.message ELSE "Unknown error")
              /\ e.details = None

C7_Witness ==
    /\ IsCleanup /\ last.deleteOk /\ last.ret = 1
    /\ \E e \in SelfLogs : e.successful /\ e.details = Some("{\"deletedCount\":1}")

\* C8: the value a successful cleanup returns is the number of rows it removed:
\* the size of the table before, less its size after without the self-authored row.
C8_ReturnsRemovedCount ==
    (IsCleanup /\ last.deleteOk)
    => /\ last.ret = Cardinality(Removed)
       /\ last.ret = Cardinality(last.pre) - (Cardinality(auditLogs) - Cardinality(Added))

C8_Witness ==
    IsCleanup /\ last.deleteOk /\ last.ret = 1 /\ Cardinality(Removed) = 1

\* C9 (as claimed): a cleanup run right after a successful one, with no row newly
\* expired between the two (no retentionDate from the first run's now up to the
\* second's), deletes nothing and returns 0, whatever the policies.
C9_SecondCleanupIsNoOp ==
    [][(/\ IsCleanup /\ last.deleteOk
        /\ CleanupExpiredLogs
        /\ last'.deleteOk
        /\ \A e \in auditLogs :
              e.retentionDate # None => ~(last.t <= e.retentionDate[1] /\ e.retentionDate[1] < now))
       => (last'.ret = 0 /\ auditLogs \subseteq auditLogs')]_vars

\* C10 (as claimed): with no matching active policy the row recorded at time T expires
\* at exactly T + 2555 days.
C10_FallbackIs2555Days ==
    (IsLog /\ last.inserted /\ last.sel.ok /\ last.sel.rows = <<>>)
    => \A e \in Added : e.retentionDate = Some(last.t + 2555)

\* C10 (amended): with no matching active policy the row recorded at time T expires on
\* the same day of the same month seven years later (1 March for 29 February), 2555
\* to 2557 days after T; the period is never zero or negative.
C10_FallbackIsSevenYears ==
    (IsLog /\ last.inserted /\ last.sel.ok /\ last.sel.rows = <<>>)
    => \A e \in Added :
          /\ e.retentionDate # None
          /\ LET d == e.retentionDate[1]
                 feb29 == getMonth(last.t) = 2 /\ getDate(last.t) = 29
             IN  /\ getFullYear(d) = getFullYear(last.t) + 7
                 /\ IF feb29 /\ ~IsLeap(getFullYear(d))
                    THEN getMonth(d) = 3 /\ getDate(d) = 1
                    ELSE getMonth(d) = getMonth(last.t) /\ getDate(d) = getDate(last.t)
                 /\ d - last.t \in 2555..2557
                 /\ d > last.t

C10_Witness ==
    /\ IsLog /\ last.inserted /\ last.sel.ok /\ last.sel.rows = <<>>
    /\ getMonth(last.t) = 2 /\ getDate(last.t) = 29
    /\ \E e \in Added : e.retentionDate = Some(last.t + 2557)

\* the policy rows of the table for the entity type of the last call
RowsFor(entityType) ==
    {policies[i] : i \in {j \in 1..Len(policies) : policies[j].dataType = entityType}}

ActiveDays(entityType) ==
    {p.retentionPeriodDays : p \in {q \in RowsFor(entityType) : q.isActive}}

\* C11: with an active policy of N days for the entity type, the row recorded at time
\* T is stored with retentionDate T + N days (N the period of an active policy of
\* that type; the only one when there is one).
C11_PolicyGivesTPlusN ==
    (IsLog /\ last.inserted /\ last.sel.ok /\ ActiveDays(last.params.entityType) # {})
    => /\ Cardinality(Added) = 1
       /\ \A e \in Added :
             /\ e.retentionDate # None
             /\ e.retentionDate[1] - last.t \in ActiveDays(last.params.entityType)

C11_Witness ==
    /\ IsLog /\ last.inserted /\ last.sel.ok
    /\ ActiveDays(last.params.entityType) = {2190}
    /\ \E e \in Added : e.retentionDate = Some(last.t + 2190)

\* C18: when every policy row of the entity type is inactive, the row recorded gets
\* the fallback retention, as when the type has no policy row at all.
C18_InactivePoliciesIgnored ==
    (/\ IsLog /\ last.inserted /\ last.sel.ok
     /\ RowsFor(last.params.entityType) # {}
     /\ \A p \in RowsFor(last.params.entityType) : ~p.isActive)
    => \A e \in Added :
          e.retentionDate =
             Some(MakeDay(getFullYear(last.t) + 7, getMonth(last.t), getDate(last.t)))

C18_Witness ==
    /\ IsLog /\ last.inserted /\ last.sel.ok
    /\ \E p \in RowsFor(last.params.entityType) : ~p.isActive /\ p.retentionPeriodDays = 1
    /\ \A p \in RowsFor(last.params.entityType) : ~p.isActive
    /\ \E e \in Added : e.retentionDate # None /\ e.retentionDate[1] - last.t = 2556

\* C19 (as claimed): two logAction calls for the same entity type against the same
\* policy table use the same policy's period, also with several active policies.
C19_SamePolicyEveryCall ==
    [][(/\ IsLog /\ last.sel.ok /\ last.sel.rows # <<>>
        /\ LogAction
        /\ last'.sel.ok
        /\ last'.params.entityType = last.params.entityType
        /\ policies' = policies)
       => calculateRetentionDate(last'.sel, now)[1] - now
            = calculateRetentionDate(last.sel, last.t)[1] - last.t]_vars

IsSeed == last.op = "initializeDefaultPolicies"

\* the number of rows of a type in a policy table
TypeCount(table, dataType) ==
    Cardinality({i \in DOMAIN table : table[i].dataType = dataType})

\* C12: a seeding in which no call throws leaves exactly one row for every default
\* type the table had no row for, and a second such seeding after it inserts
\* nothing: the table has one row for each type absent before the first.
C12_SeedingTwiceIsIdempotent ==
    [][(InitializeDefaultPolicies /\ ~last'.failed)
       => /\ \A c \in DefaultTypes :
                TypeCount(policies, c) = 0 => TypeCount(policies', c) = 1
          /\ (IsSeed /\ ~last.failed
                => /\ policies' = policies
                   /\ \A c \in DefaultTypes :
                         TypeCount(last.policiesPre, c) = 0
                            => TypeCount(policies', c) = 1)]_vars

\* a second seeding returned: the first one had added the defaults
C12_Witness ==
    /\ IsSeed /\ ~last.failed
    /\ policies = last.policiesPre
    /\ \A c \in DefaultTypes : TypeCount(policies, c) >= 1
    /\ TypeCount(policies, "appointments") = 1

\* C14: the seeding only appends: the rows it found are all there, unchanged, and
\* every row it added is of a type the table had no row for.
C14_SeedingOnlyInserts ==
    IsSeed
    => /\ Len(policies) >= Len(last.policiesPre)
       /\ SubSeq(policies, 1, Len(last.policiesPre)) = last.policiesPre
       /\ \A i \in (Len(last.policiesPre) + 1)..Len(policies) :
             TypeCount(last.policiesPre, policies[i].dataType) = 0

C14_Witness ==
    /\ IsSeed
    /\ Len(policies) > Len(last.policiesPre)
    /\ TypeCount(last.policiesPre, "user") = 1
    /\ TypeCount(policies, "user") = 1
    /\ \E i \in DOMAIN last.policiesPre : last.policiesPre[i] = Policy("user", 30, FALSE)

\* C17: a stored row never changes: over every step of every operation a row that
\* stays keeps all its fields; rows come in only by logAction (the self-logging call
\* of a cleanup included) and go only by a cleanup.
C17_RowsAreImmutable ==
    [][/\ \A e \in auditLogs : \A f \in auditLogs' : f.id = e.id => f = e
       /\ (auditLogs' \ auditLogs # {}
             => last'.op \in {"logAction", "cleanupExpiredLogs"} /\ last'.inserted)
       /\ (auditLogs \ auditLogs' # {}
             => last'.op = "cleanupExpiredLogs" /\ last'.deleteOk)]_vars

\* a caller redacted the object of a stored row, and the row is as it was
C17_Witness ==
    /\ last.op = "redactPII"
    /\ last.data.type = "object"
    /\ "userId" \in DOMAIN last.data.v
    /\ last.value.type = "object"
    /\ last.value.v.userId.v = "***REDACTED***"
    /\ \E e \in auditLogs : /\ e.id = last.data.v.id.v
                            /\ e.userId = "u1"
                            /\ e.id = MaxId
    /\ Cardinality(auditLogs) < MaxId

IsTrail == last.op = "getAuditTrail"

\* the stored rows of the entity the last trail call asked for
TrailMatches ==
    {e \in auditLogs : /\ e.entityType = last.query.entityType
                       /\ e.entityId # None
                       /\ e.entityId[1] = last.query.entityId}

TrailLimit == IF last.query.limit = None THEN DefaultLimit ELSE last.query.limit[1]

\* C20: a trail call whose select succeeds returns min(limit, n) distinct rows of the
\* n stored rows of the entity asked for, in ascending timestamp order, and no row
\* left out is older than a row returned; the limit is 100 when none is given.
C20_TrailIsFirstRowsInOrder ==
    (IsTrail /\ last.sel.ok)
    => LET rows == last.rows
           n == Cardinality(TrailMatches)
       IN  /\ Len(rows) = (IF TrailLimit <= n THEN TrailLimit ELSE n)
           /\ \A i \in 1..Len(rows) : rows[i] \in TrailMatches
           /\ \A i, j \in 1..Len(rows) :
                 i < j => rows[i] # rows[j] /\ rows[i].timestamp <= rows[j].timestamp
           /\ \A e \in TrailMatches :
                 (\A i \in 1..Len(rows) : rows[i] # e)
                    => \A i \in 1..Len(rows) : rows[i].timestamp <= e.timestamp

\* the default limit cut a trail of more rows
C20_Witness ==
    /\ IsTrail /\ last.sel.ok
    /\ last.query.limit = None
    /\ Cardinality(TrailMatches) > DefaultLimit
    /\ Len(last.rows) = DefaultLimit

\* C13 (as claimed): however the seedings of several instances interleave, the
\* policy table never holds two rows of one default type.
C13_NoDuplicateTypes ==
    \A c \in DefaultTypes : TypeCount(policies, c) <= 1

\* what the sweepers returned, summed over the first n of them
RECURSIVE SumRet(_)
SumRet(n) == IF n = 0 THEN 0 ELSE procs.sweepers[n].ret + SumRet(n - 1)

Deleted(p) == procs.sweepers[p].deletedLogs

DeleteDone(p) == procs.sweepers[p].pc \in {"log", "done"} /\ procs.sweepers[p].deleteOk

\* C15: however the cleanups of several instances interleave (with each other, the
\* clock and a recorder), no row is removed by two of them; a cleanup removes only
\* rows whose retentionDate is not null and before its now, and all such rows its
\* delete finds; and when all have returned, the counts they returned add up to
\* the number of rows gone from the table.
C15_ConcurrentSweepersTolerated ==
    /\ \A p, q \in Sweepers : p # q => Deleted(p) \cap Deleted(q) = {}
    /\ \A p \in Sweepers :
          /\ \A e \in Deleted(p) : /\ e.retentionDate # None
                                   /\ e.retentionDate[1] < procs.sweepers[p].t
          /\ Deleted(p) \cap auditLogs = {}
          /\ (procs.sweepers[p].pc = "log" /\ procs.sweepers[p].deleteOk)
                => \A e \in procs.sweepers[p].pre :
                      (e.retentionDate # None /\ e.retentionDate[1] < procs.sweepers[p].t)
                         => e \in Deleted(p)
    /\ (\A p \in Sweepers : procs.sweepers[p].pc = "done")
          => SumRet(NSweepers) = (nextId - 1) - Cardinality(auditLogs)

\* two cleanups read the same now; one removed the expired row, the other found none
C15_Witness ==
    /\ \A p \in Sweepers : procs.sweepers[p].pc = "done"
    /\ \E p, q \in Sweepers :
          /\ p # q
          /\ procs.sweepers[p].t = procs.sweepers[q].t
          /\ procs.sweepers[p].deleteOk /\ procs.sweepers[q].deleteOk
          /\ Deleted(p) # {} /\ Deleted(q) = {}
          /\ procs.sweepers[p].ret = 1 /\ procs.sweepers[q].ret = 0

\* C16: a row that was stored is gone from the table only if its retentionDate is
\* not null and before the now of a cleanup whose delete ran: rows with a null
\* retentionDate, and rows expiring at or after the now of every cleanup, stay,
\* however the recorder and the cleanups interleave.
C16_CleanupKeepsUnexpiredRows ==
    \A e \in procs.stored \ auditLogs :
       /\ e.retentionDate # None
       /\ \E p \in Sweepers : DeleteDone(p) /\ e.retentionDate[1] < procs.sweepers[p].t

\* a row the recorder wrote, expiring the day it was written, was in the table when
\* a cleanup of that day deleted an older row, and is still there
C16_Witness ==
    \E e \in auditLogs :
       /\ e.id >= MaxId
       /\ e.userId = "u1"
       /\ e.retentionDate = Some(e.timestamp)
       /\ \E p \in Sweepers :
             /\ procs.sweepers[p].pc = "log" /\ procs.sweepers[p].deleteOk
             /\ e \in procs.sweepers[p].pre
             /\ procs.sweepers[p].t = e.timestamp
             /\ Deleted(p) # {}

\* C21: a trail call whose select throws returns the empty list and does not raise,
\* and the auditLogs table is as it was before the call.
C21_FailedReadGivesEmptyTrail ==
    (IsTrail /\ ~last.sel.ok)
    => /\ last.rows = <<>>
       /\ ~last.raised
       /\ auditLogs = last.pre

\* the select threw for an entity that has rows in the table
C21_Witness ==
    /\ IsTrail /\ ~last.sel.ok
    /\ last.rows = <<>>
    /\ ~last.raised
    /\ Cardinality(TrailMatches) >= 3

IsRedact == last.op = "redactPII"

\* the fields the last redactPII call was to redact
Named == IF last.fields = None THEN DefaultFields ELSE last.fields[1]

NamedSet == {Named[i] : i \in 1..Len(Named)}

\* two JavaScript values are the same value
JSEqual(a, b) == a.type = b.type /\ a.v = b.v

HasPhoneShape(str) ==
    \E i \in 1..Len(str) :
       /\ CharAt(str, i) = "+"
       /\ \A k \in 1..5 : i + k <= Len(str) /\ CharAt(str, i + k) \in Digits

\* the last call was to redact the field, which the argument has as a non-empty
\* string, and returned an object
RedactedString(field) ==
    /\ IsRedact /\ ~last.raised
    /\ last.data.type = "object"
    /\ field \in NamedSet
    /\ field \in DOMAIN last.data.v
    /\ last.data.v[field].type = "string"
    /\ last.data.v[field].v # ""
    /\ last.value.v[field].type = "string"

\* C23 (as claimed): a phone value that has not the phone shape is masked whole: the
\* value returned under phone has no digit of the original and is not the original.
C23_UnshapedPhoneFullyMasked ==
    (RedactedString("phone") /\ ~HasPhoneShape(last.data.v.phone.v))
    => /\ last.value.v.phone.v # last.data.v.phone.v
       /\ \A i \in 1..Len(last.value.v.phone.v) :
             CharAt(last.value.v.phone.v, i) \notin Digits

\* the example of the specification, redacted with the default field list
IsExample ==
    /\ IsRedact /\ ~last.raised
    /\ last.fields = None
    /\ last.data.type = "object"
    /\ DOMAIN last.data.v = {"id", "phone", "email", "name"}
    /\ last.data.v.phone.type = "string" /\ last.data.v.phone.v = "+447700900123"
    /\ last.data.v.email.type = "string" /\ last.data.v.email.v = "jane@x.com"
    /\ last.data.v.name.type = "string" /\ last.data.v.name.v = "Jane Doe"

C25_OtherFieldsAlwaysRedacted ==
    (IsRedact /\ ~last.raised /\ last.data.type = "object")
    => \A k \in (DOMAIN last.data.v \cap NamedSet) \ {"phone", "email"} :
          JSEqual(last.value.v[k], JString("***REDACTED***"))

\* the part of an email value before its first '@', the whole value without one
LocalPart(str) ==
    LET ats == {j \in 1..Len(str) : CharAt(str, j) = "@"}
    IN  IF ats = {} THEN str
        ELSE SubSeq(str, 1, (CHOOSE m \in ats : \A x \in ats : m <= x) - 1)

\* C26 (as claimed): of an email value the call keeps the first character of the
\* local part and what follows the local part, with a mask between them, so no later
\* character of the local part is returned; also for a value without '@'.
C26_EmailLocalPartMasked ==
    (RedactedString("email") /\ Len(LocalPart(last.data.v.email.v)) >= 1)
    => LET str == last.data.v.email.v
           local == LocalPart(str)
       IN  last.value.v.email.v
              = SubSeq(str, 1, 1) \o "***" \o SubSeq(str, Len(local) + 1, Len(str))

\* C27: a redactPII call on null or on a value that is no object returns that value
\* and does not throw.
C27_NonObjectsReturnedUnchanged ==
    (IsRedact /\ last.data.type # "object")
    => /\ ~last.raised
       /\ JSEqual(last.value, last.data)
       /\ JSEqual(last.dataAfter, last.data)

C27_Witness ==
    /\ IsRedact /\ ~last.raised
    /\ last.data.type = "number" /\ last.data.v = 42
    /\ last.value.type = "number" /\ last.value.v = 42

\* the number of rows a seeding leaves for a default type it has reached
Seeded(table, dataType) ==
    IF TypeCount(table, dataType) = 0 THEN 1 ELSE TypeCount(table, dataType)

\* the table after is the table before with one row added for every missing type
\* among the defaults before the i-th, and no row for a later default
SeededBefore(before, after, i) ==
    /\ Len(after) >= Len(before)
    /\ SubSeq(after, 1, Len(before)) = before
    /\ \A j \in 1..Len(defaultPolicies) :
          TypeCount(after, defaultPolicies[j].dataType)
             = IF j < i THEN Seeded(before, defaultPolicies[j].dataType)
                        ELSE TypeCount(before, defaultPolicies[j].dataType)
    /\ \A k \in (Len(before) + 1)..Len(after) : after[k].dataType \in DefaultTypes

\* C29: a seeding never raises. When one of its database calls throws, the call
\* returns normally, the rows it inserted for the defaults before the failing one
\* stay, and no row is inserted for the failing default or a later one; a seeding
\* after it in which no call throws adds one row for exactly the default types
\* still missing.
C29_FailedSeedingKeepsRowsAndStops ==
    [][InitializeDefaultPolicies
       => /\ ~last'.raised
          /\ (last'.failed
                => \E i \in 1..Len(defaultPolicies) : SeededBefore(policies, policies', i))
          /\ (IsSeed /\ last.failed /\ ~last'.failed
                => SeededBefore(policies, policies', Len(defaultPolicies) + 1))]_vars

\* a seeding that failed at its fourth default after inserting rows, followed by
\* one that added the rest
C29_Witness ==
    /\ IsSeed /\ ~last.failed
    /\ TypeCount(last.policiesPre, "appointments") = 1
    /\ TypeCount(last.policiesPre, "audit_logs") = 1
    /\ TypeCount(last.policiesPre, "user") = 0
    /\ TypeCount(last.policiesPre, "consent_records") = 0
    /\ TypeCount(policies, "user") = 1
    /\ TypeCount(policies, "consent_records") = 1

IsRender == last.op = "Router"

AdminViews == {"AdminDashboard", "AdminMonitoring"}

\* the locations some route has as its path, with or without a slash at the end
KnownLocations ==
    {routes[i].path : i \in 1..Len(routes)}
       \cup {routes[i].path \o "/" : i \in 1..Len(routes)}

\* C30: whatever the loading state, the authentication state, the user and the
\* location, an admin view is rendered only for an authenticated user of role
\* 'admin'; an unauthenticated user sees Landing, or NotFound at a location no
\* route has; and while the authentication state is loading the spinner is
\* rendered and no route content.
C30_RouterGatesAdminViews ==
    IsRender
    => LET r == last.route
       IN  /\ r.view \in AdminViews
                => /\ r.isAuthenticated
                   /\ r.user # None
                   /\ r.user[1].role = "admin"
           /\ (~r.isLoading /\ ~r.isAuthenticated)
                => r.view = IF r.location \in KnownLocations THEN "Landing"
                                                              ELSE "NotFound"
           /\ r.isLoading => r.view = "Loading"

\* an administrator at /admin/monitoring sees AdminMonitoring
C30_Witness ==
    /\ IsRender
    /\ last.route.location = "/admin/monitoring"
    /\ last.route.isAuthenticated
    /\ last.route.user = Some([role |-> "admin"])
    /\ last.route.view = "AdminMonitoring"

\* the row of an id, as a set
RowOf(id) == {e \in auditLogs : e.id = id}

\* C28: with the sweeper run again and again, its delete succeeding again and again
\* and the clock going on, every row with a retention date is removed in the end,
\* and a row without one is never removed.
C28_DatedRowsGoUndatedStay ==
    /\ \A id \in 1..MaxId :
          (\E e \in RowOf(id) : IsSome(e.retentionDate)) ~> (RowOf(id) = {})
    /\ [][\A e \in auditLogs : e.retentionDate = None => e \in auditLogs']_vars

\* the rows recorded before the start and a row written later, with a retention
\* date years ahead, are gone; the row without a date is there
C28_Witness ==
    /\ last.op = "cleanupExpiredLogs" /\ last.deleteOk
    /\ nextId > MaxId
    /\ \A e \in auditLogs : e.retentionDate = None
    /\ RowOf(3) # {}
    /\ \E e \in last.pre : e.id = MaxId /\ IsSome(e.retentionDate)

====
